---------------------------- MODULE Spec2Model ----------------------------
(***************************************************************************)
(* CamMatrixCapture: the Sapera RAW reader (src/read_sapera_raw.py) and    *)
(* the HTTP-to-subprocess bridge (src/web-bridge/web_bridge.py).           *)
(*                                                                         *)
(* A byte buffer is represented by its length and its content, the content *)
(* being periodic with a period of two bytes: byte i of the buffer is      *)
(* pat[(i % 2) + 1].  Lengths are the real ones (up to 4112*3008*2 + 1),   *)
(* so the size arithmetic of the reader is the code's own.  An array is    *)
(* represented the same way: its element count and the repeating elements. *)
(***************************************************************************)
EXTENDS Integers, Sequences, FiniteSets, TLC

\* The two files are two programs: a run is a run of one of them.
VARIABLE program      \* "reader" or "bridge"

(***************************************************************************)
(* Part 1.  SaperaRawReader                                                *)
(***************************************************************************)

VARIABLES
    ctor,             \* the arguments the reader was constructed with
    width,            \* self.width
    height,           \* self.height
    bit_depth,        \* self.bit_depth
    bytes_per_pixel,  \* self.bytes_per_pixel
    last_op,          \* "init", "read_raw_file" or "demosaic_bayer"
    io_error,         \* the last read_raw_file: open()/read() raised
    raw_data,         \* the last read_raw_file: the bytes read
    hint,             \* the last read_raw_file: self.width/height on entry
    outcome,          \* the last read_raw_file: the branch that returned
    image,            \* the last read_raw_file: the value returned
    pattern,          \* the last demosaic_bayer: its pattern argument
    bayer_8bit,       \* the last demosaic_bayer: the local bayer_8bit
    rgb_image         \* the last demosaic_bayer: the value returned

VARIABLES
    requests,   \* the requests received, in order of arrival: id = position
    phase,      \* per request: "pending", "running" or "done"
    invoked,    \* per request: the subprocess invocations made for it
    result,     \* per request: what subprocess.run did
    response,   \* per request: the HTTP response sent
    running     \* the request whose handler is in subprocess.run, or 0

bridge_vars == <<requests, phase, invoked, result, response, running>>

reader_vars == <<ctor, width, height, bit_depth, bytes_per_pixel, last_op,
                 io_error, raw_data, hint, outcome, image, pattern,
                 bayer_8bit, rgb_image>>

\* Python's None, as a value comparable with arrays.
None == [kind |-> "None"]

\* numpy.uint16 arithmetic wraps at 2^16.
Uint16(v) == v % 65536

\* numpy.uint8 arithmetic wraps at 2^8.
Uint8(v) == v % 256

\* formats_to_try, in the order the code lists them.
formats_to_try ==
    << [bytes_per_pixel |-> 2, dtype |-> "uint16"],
       [bytes_per_pixel |-> 1, dtype |-> "uint8"] >>

\* common_resolutions, in the order the code lists them.
common_resolutions ==
    << [w |-> 4112, h |-> 3008],
       [w |-> 2056, h |-> 1504],
       [w |-> 1028, h |-> 752] >>

\* The element size of a dtype, in bytes.
ItemSize(dtype) == IF dtype = "uint16" THEN 2 ELSE 1

\* np.frombuffer(raw_data, dtype=dtype) without its size check: the bytes
\* reinterpreted as little-endian elements, a trailing partial element dropped.
FromBufferTruncating(raw, dtype) ==
    [kind  |-> "array",
     dtype |-> dtype,
     size  |-> raw.len \div ItemSize(dtype),
     elems |-> IF dtype = "uint16"
               THEN << raw.pat[1] + 256 * raw.pat[2] >>
               ELSE raw.pat]

\* np.frombuffer(raw_data, dtype=dtype): ValueError unless the buffer's size
\* is a multiple of the element size.
frombuffer(raw, dtype) ==
    IF raw.len % ItemSize(dtype) # 0
    THEN [kind |-> "ValueError"]
    ELSE [kind  |-> "array",
          dtype |-> dtype,
          size  |-> raw.len \div ItemSize(dtype),
          elems |-> IF dtype = "uint16"
                    THEN << raw.pat[1] + 256 * raw.pat[2] >>
                    ELSE raw.pat]

\* raw_array.reshape((h, w)): ValueError unless the array has h*w elements.
reshape(arr, h, w) ==
    IF arr.size # h * w
    THEN [kind |-> "ValueError"]
    ELSE [kind |-> "ndarray", dtype |-> arr.dtype,
          height |-> h, width |-> w, elems |-> arr.elems]

\* The elements of s, each mapped by Op.
MapSeq(s, Op(_)) == [i \in DOMAIN s |-> Op(s[i])]

Shl8(v) == Uint16(v * 256)
Shl4(v) == Uint16(v * 16)

\* The hinted path's scaling with the 8-bit shift wrong.
ScaleHintedShort(img, depth) ==
    IF img.dtype = "uint8"
    THEN [img EXCEPT !.dtype = "uint16", !.elems = MapSeq(img.elems, Shl4)]
    ELSE IF depth = 12 /\ img.dtype = "uint16"
         THEN [img EXCEPT !.elems = MapSeq(img.elems, Shl4)]
         ELSE img

\* "Convert to uint16 for consistent processing", on the hinted path.
ScaleHinted(img, depth) ==
    IF img.dtype = "uint8"
    THEN [img EXCEPT !.dtype = "uint16", !.elems = MapSeq(img.elems, Shl8)]
    ELSE IF depth = 12 /\ img.dtype = "uint16"
         THEN [img EXCEPT !.elems = MapSeq(img.elems, Shl4)]
         ELSE img

\* "Convert to uint16", on the auto-detection path.
ScaleAuto(img, depth) ==
    IF img.dtype = "uint8"
    THEN [img EXCEPT !.dtype = "uint16", !.elems = MapSeq(img.elems, Shl8)]
    ELSE IF depth = 12 /\ img.dtype = "uint16"
         THEN [img EXCEPT !.elems = MapSeq(img.elems, Shl4)]
         ELSE img

\* The reader's fields, as one value.
Self(w, h, d, b) ==
    [width |-> w, height |-> h, bit_depth |-> d, bytes_per_pixel |-> b]

\* SaperaRawReader.__init__
NewReader(w, h, d) == Self(w, h, d, 2)

\* The first loop: the indices of formats_to_try whose expected size is the
\* actual size.
HintedMatches(self, raw) ==
    { k \in DOMAIN formats_to_try :
        raw.len = self.width * self.height * formats_to_try[k].bytes_per_pixel }

\* The second loop: the (format, resolution) index pairs whose pixel count is
\* actual_size // bytes_per_pixel.
AutoMatches(raw) ==
    { p \in (DOMAIN formats_to_try) \X (DOMAIN common_resolutions) :
        common_resolutions[p[2]].w * common_resolutions[p[2]].h
            = raw.len \div formats_to_try[p[1]].bytes_per_pixel }

\* The least element of a non-empty set of naturals.
MinOf(S) == CHOOSE x \in S : \A y \in S : x <= y

\* The pair the nested loops reach first: formats outside, resolutions inside.
FirstPair(S) ==
    CHOOSE p \in S : \A q \in S : p[1] < q[1] \/ (p[1] = q[1] /\ p[2] <= q[2])

\* The body of the first loop's if, for the format of index k.
HintedBody(self, raw, k) ==
    LET f     == formats_to_try[k]
        self1 == [self EXCEPT !.bytes_per_pixel = f.bytes_per_pixel]
        arr   == frombuffer(raw, f.dtype)
        img   == IF arr.kind = "array"
                 THEN reshape(arr, self1.height, self1.width)
                 ELSE arr
    IN  IF img.kind = "ndarray"
        THEN [self |-> self1, outcome |-> "detected",
              ret |-> ScaleHinted(img, self1.bit_depth)]
        ELSE [self |-> self1, outcome |-> "exception", ret |-> None]

\* The second loop's body without the assignment of self.bytes_per_pixel.
AutoBodyKeepsBpp(self, raw, p) ==
    LET f     == formats_to_try[p[1]]
        r     == common_resolutions[p[2]]
        self1 == [self EXCEPT !.width = r.w, !.height = r.h]
        arr   == frombuffer(raw, f.dtype)
        img   == IF arr.kind = "array"
                 THEN reshape(arr, self1.height, self1.width)
                 ELSE arr
    IN  IF img.kind = "ndarray"
        THEN [self |-> self1, outcome |-> "auto-detected",
              ret |-> ScaleAuto(img, self1.bit_depth)]
        ELSE [self |-> self1, outcome |-> "exception", ret |-> None]

\* The body of the second loop's if, for the pair p.
AutoBody(self, raw, p) ==
    LET f     == formats_to_try[p[1]]
        r     == common_resolutions[p[2]]
        self1 == [self EXCEPT !.width = r.w, !.height = r.h,
                              !.bytes_per_pixel = f.bytes_per_pixel]
        arr   == frombuffer(raw, f.dtype)
        img   == IF arr.kind = "array"
                 THEN reshape(arr, self1.height, self1.width)
                 ELSE arr
    IN  IF img.kind = "ndarray"
        THEN [self |-> self1, outcome |-> "auto-detected",
              ret |-> ScaleAuto(img, self1.bit_depth)]
        ELSE [self |-> self1, outcome |-> "exception", ret |-> None]

\* read_raw_file with the auto-detection loop before the hinted sizes.
ReadRawFileAutoFirst(self, raw, ioerr) ==
    IF ioerr
    THEN [self |-> self, outcome |-> "exception", ret |-> None]
    ELSE IF AutoMatches(raw) # {}
    THEN AutoBody(self, raw, FirstPair(AutoMatches(raw)))
    ELSE IF HintedMatches(self, raw) # {}
    THEN HintedBody(self, raw, MinOf(HintedMatches(self, raw)))
    ELSE [self |-> self, outcome |-> "undetected", ret |-> None]

\* SaperaRawReader.read_raw_file: the value returned, the reader's fields on
\* return, and the branch that returned.
read_raw_file(self, raw, ioerr) ==
    IF ioerr
    THEN [self |-> self, outcome |-> "exception", ret |-> None]
    ELSE IF HintedMatches(self, raw) # {}
    THEN HintedBody(self, raw, MinOf(HintedMatches(self, raw)))
    ELSE IF AutoMatches(raw) # {}
    THEN AutoBody(self, raw, FirstPair(AutoMatches(raw)))
    ELSE [self |-> self, outcome |-> "undetected", ret |-> None]

ShrByte(v) == Uint8(v \div 256)

\* pattern_map: the OpenCV conversion of each Bayer pattern.
pattern_map ==
    [RGGB |-> "COLOR_BAYER_BG2RGB", BGGR |-> "COLOR_BAYER_RG2RGB",
     GRBG |-> "COLOR_BAYER_GB2RGB", GBRG |-> "COLOR_BAYER_GR2RGB"]

\* cv2.cvtColor(bayer_8bit, code): the library's interpolation, uninterpreted.
cvtColor(src, code) ==
    [kind |-> "rgb", height |-> src.height, width |-> src.width,
     code |-> code, src |-> src.elems]

\* SaperaRawReader.demosaic_bayer: the local bayer_8bit and the value returned.
demosaic_bayer(bayer_image, pat) ==
    LET b8 == [bayer_image EXCEPT !.dtype = "uint8",
                                  !.elems = MapSeq(bayer_image.elems, ShrByte)]
    IN  IF pat \notin DOMAIN pattern_map
        THEN [bayer_8bit |-> b8, ret |-> None]
        ELSE [bayer_8bit |-> b8, ret |-> cvtColor(b8, pattern_map[pat])]

(***************************************************************************)
(* The inputs of the reader.                                               *)
(***************************************************************************)

\* Constructor widths and heights: the 1x1 frame, a small frame, the default
\* sensor, a frame whose 1-byte size is the half resolution's 2-byte size, and
\* a frame of one pixel more than the quarter resolution.
HintDims ==
    { <<1, 1>>, <<3, 2>>, <<4112, 3008>>, <<2056, 3008>>, <<773057, 1>> }

BitDepths == {8, 12, 16}

\* The two bytes a buffer repeats: zeros, the largest 12-bit sample, the
\* largest 16-bit sample, and a sample whose two bytes differ in order.
BytePatterns == { <<0, 0>>, <<255, 15>>, <<255, 255>>, <<1, 0>> }

\* Pixel counts the reader can be looking for.
PixelCounts ==
    { width * height, ctor.width * ctor.height }
    \cup { common_resolutions[j].w * common_resolutions[j].h :
             j \in DOMAIN common_resolutions }

\* Buffer lengths: empty, and around each size the reader compares with.
Lengths ==
    {0} \cup UNION { { n, 2 * n - 1, 2 * n, 2 * n + 1 } : n \in PixelCounts }

Patterns == {"RGGB", "BGGR", "GRBG", "GBRG", "XYZZY"}

NoData == [len |-> 0, pat |-> <<0, 0>>]

\* A reader constructed with dimensions from D and a bit depth from B, and
\* nothing called yet.
ReaderInitFrom(D, B) ==
    /\ \E d \in D, b \in B :
          ctor = [width |-> d[1], height |-> d[2], bit_depth |-> b]
    /\ width = NewReader(ctor.width, ctor.height, ctor.bit_depth).width
    /\ height = NewReader(ctor.width, ctor.height, ctor.bit_depth).height
    /\ bit_depth = NewReader(ctor.width, ctor.height, ctor.bit_depth).bit_depth
    /\ bytes_per_pixel =
          NewReader(ctor.width, ctor.height, ctor.bit_depth).bytes_per_pixel
    /\ last_op = "init"
    /\ io_error = FALSE
    /\ raw_data = NoData
    /\ hint = [width |-> ctor.width, height |-> ctor.height]
    /\ outcome = "none"
    /\ image = None
    /\ pattern = "none"
    /\ bayer_8bit = None
    /\ rgb_image = None

\* The buffers a file can hold.
Buffers == { [len |-> n, pat |-> p] : n \in Lengths, p \in BytePatterns }

\* A call of read_raw_file on a file holding raw, or on one that cannot be read.
ReadRawFile ==
    /\ program = "reader"
    /\ UNCHANGED <<program, requests, phase, invoked, result, response, running>>
    /\ \E ioerr \in BOOLEAN :
         \E raw \in (IF ioerr THEN {NoData} ELSE Buffers) :
           \E res \in { read_raw_file(
                           Self(width, height, bit_depth, bytes_per_pixel),
                           raw, ioerr) } :
              /\ last_op' = "read_raw_file"
              /\ io_error' = ioerr
              /\ raw_data' = raw
              /\ hint' = [width |-> width, height |-> height]
              /\ outcome' = res.outcome
              /\ image' = res.ret
              /\ width' = res.self.width
              /\ height' = res.self.height
              /\ bit_depth' = res.self.bit_depth
              /\ bytes_per_pixel' = res.self.bytes_per_pixel
              /\ pattern' = "none"
              /\ bayer_8bit' = None
              /\ rgb_image' = None
              /\ UNCHANGED ctor

\* A call of demosaic_bayer on the frame read_raw_file returned.
DemosaicBayer ==
    /\ program = "reader"
    /\ UNCHANGED <<program, requests, phase, invoked, result, response, running>>
    /\ image # None
    /\ \E pat \in Patterns :
         \E res \in { demosaic_bayer(image, pat) } :
           /\ last_op' = "demosaic_bayer"
           /\ pattern' = pat
           /\ bayer_8bit' = res.bayer_8bit
           /\ rgb_image' = res.ret
           /\ UNCHANGED <<ctor, width, height, bit_depth, bytes_per_pixel,
                          io_error, raw_data, hint, outcome, image>>

(***************************************************************************)
(* Part 2.  The web bridge                                                 *)
(***************************************************************************)

vars == <<program, ctor, width, height, bit_depth, bytes_per_pixel, last_op,
          io_error, raw_data, hint, outcome, image, pattern, bayer_8bit,
          rgb_image, requests, phase, invoked, result, response, running>>

\* The module's paths, relative to CLEAN_SYSTEM_ROOT.
EXECUTABLE_PATH == "backend/refactored_capture.exe"
CONFIG_PATH == "config/camera_config.json"
DATA_DIR == "data"
FRONTEND_DIR == "frontend"

\* run_camera_command's default timeout.
DefaultTimeout == 60

NoResult == [kind |-> "none"]
NoResponse == [status |-> 0, detail |-> "", body |-> [kind |-> "none"]]

\* raise HTTPException(status_code, detail), as the response FastAPI sends.
HTTPException(status_code, detail) ==
    [status |-> status_code, detail |-> detail, body |-> [kind |-> "none"]]

\* A handler's return value, as the response FastAPI sends.
JSONResponse(value) == [status |-> 200, detail |-> "", body |-> value]

\* An exception no handler catches, as the response the server sends.
InternalServerError ==
    [status |-> 500, detail |-> "Internal Server Error",
     body |-> [kind |-> "none"]]

\* json.loads on the texts the model's subprocess prints: a JSON value, or
\* JSONDecodeError for a text that is not JSON.
json_loads(text) ==
    CASE text = "[]" -> [kind |-> "list", value |-> <<>>]
      [] text = "{\"total_cameras\": 2}" ->
            [kind |-> "dict", value |-> [total_cameras |-> 2]]
      [] text = "{\"system_info\": {\"executable\": \"upstream\"}, \"total_images\": 4}" ->
            [kind |-> "dict",
             value |-> [system_info |-> [executable |-> "upstream"],
                        total_images |-> 4]]
      [] OTHER -> [kind |-> "JSONDecodeError"]

\* The command line and the keyword arguments subprocess.run is called with.
Invocation(command_args, timeout) ==
    [cmd |-> <<EXECUTABLE_PATH, "--config", CONFIG_PATH>> \o command_args,
     cwd |-> DATA_DIR,
     timeout |-> timeout]

\* run_camera_command with TimeoutExpired caught by the general handler.
RunCameraCommandNoTimeoutCase(o) ==
    CASE o.kind = "TimeoutExpired" ->
            [raised |-> TRUE,
             response |-> HTTPException(500, "Camera operation failed: timed out")]
      [] o.kind = "Exception" ->
            [raised |-> TRUE,
             response |-> HTTPException(500, "Camera operation failed: " \o o.msg)]
      [] OTHER -> [raised |-> FALSE, result |-> o]

\* run_camera_command, given what subprocess.run did: the result returned, or
\* the HTTPException raised.
run_camera_command(o) ==
    CASE o.kind = "TimeoutExpired" ->
            [raised |-> TRUE,
             response |-> HTTPException(408, "Camera operation timed out")]
      [] o.kind = "Exception" ->
            [raised |-> TRUE,
             response |-> HTTPException(500, "Camera operation failed: " \o o.msg)]
      [] OTHER -> [raised |-> FALSE, result |-> o]

\* list_cameras, from run_camera_command's return on.
list_cameras(o) ==
    LET r == run_camera_command(o)
    IN  IF r.raised THEN r.response
        ELSE IF r.result.returncode # 0
        THEN HTTPException(500, "Failed to list cameras")
        ELSE LET parsed == json_loads(r.result.stdout)
             IN  IF parsed.kind = "JSONDecodeError"
                 THEN HTTPException(500, "Invalid response from camera system")
                 ELSE IF parsed.kind # "dict"
                 THEN InternalServerError    \* response.get: AttributeError
                 ELSE JSONResponse(parsed)

\* The metadata capture_all_cameras stores under "system_info".
SystemInfo ==
    [executable |-> "refactored_capture.exe",
     config |-> "camera_config.json",
     data_directory |-> DATA_DIR,
     ultra_conservative_mode |-> "enabled",
     smart_scheduling |-> "enabled",
     max_concurrent_cameras |-> 2,
     dark_image_retry |-> "enabled",
     max_retries |-> 5,
     zero_dark_guarantee |-> "enabled"]

\* response["system_info"] = {...} on a dict.
SetItem(d, key, val) ==
    [k \in (DOMAIN d) \cup {key} |-> IF k = key THEN val ELSE d[k]]

\* capture_all_cameras, from run_camera_command's return on.
capture_all_cameras(o) ==
    LET r == run_camera_command(o)
    IN  IF r.raised THEN r.response
        ELSE IF r.result.returncode # 0
        THEN HTTPException(500, "Capture operation failed")
        ELSE LET parsed == json_loads(r.result.stdout)
             IN  IF parsed.kind = "JSONDecodeError"
                 THEN HTTPException(500, "Invalid response from capture operation")
                 ELSE IF parsed.kind # "dict"
                 THEN InternalServerError    \* response.get: AttributeError
                 ELSE JSONResponse(
                          [parsed EXCEPT
                              !.value = SetItem(parsed.value, "system_info",
                                                SystemInfo)])

\* get_camera_parameters, from run_camera_command's return on.
get_camera_parameters(camera_id, o) ==
    LET r == run_camera_command(o)
    IN  IF r.raised THEN r.response
        ELSE IF r.result.returncode # 0
        THEN HTTPException(404, "Camera " \o camera_id \o " not found")
        ELSE LET parsed == json_loads(r.result.stdout)
             IN  IF parsed.kind = "JSONDecodeError"
                 THEN HTTPException(500, "Invalid response from camera system")
                 ELSE JSONResponse(parsed)

\* capture_single_camera, from run_camera_command's return on.
capture_single_camera(camera_id, o) ==
    LET r == run_camera_command(o)
    IN  IF r.raised THEN r.response
        ELSE IF r.result.returncode # 0
        THEN HTTPException(500, "Capture failed for camera " \o camera_id)
        ELSE LET parsed == json_loads(r.result.stdout)
             IN  IF parsed.kind = "JSONDecodeError"
                 THEN HTTPException(500, "Invalid response from capture operation")
                 ELSE JSONResponse(parsed)

\* system_status: the status dict, given what Path.exists() answers.
system_status(exe_exists, cfg_exists) ==
    JSONResponse(
        [kind |-> "dict",
         value |-> [status |-> "operational",
                    executable_exists |-> exe_exists,
                    config_exists |-> cfg_exists,
                    data_directory |-> DATA_DIR,
                    frontend_directory |-> FRONTEND_DIR,
                    ultra_conservative_optimizations |->
                        [smart_scheduling |-> TRUE,
                         max_concurrent_cameras |-> 2,
                         bandwidth_throttling |-> TRUE,
                         ultra_conservative_mode |-> TRUE,
                         intelligent_retry |-> TRUE,
                         max_retries |-> 5,
                         buffer_count |-> 5],
                    version |-> "Ultra-Conservative System v3.1"]])

CameraEndpoints ==
    {"list_cameras", "capture_all_cameras", "get_camera_parameters",
     "capture_single_camera"}

\* capture_all_cameras' call with run_camera_command's default timeout.
CallOfDefaultTimeout(req) ==
    CASE req.endpoint = "list_cameras" ->
            Invocation(<<"--json", "--list-cameras">>, DefaultTimeout)
      [] req.endpoint = "capture_all_cameras" ->
            Invocation(<<"--json", "--capture-all">>, DefaultTimeout)
      [] req.endpoint = "get_camera_parameters" ->
            Invocation(<<"--json", "--get-params", req.camera_id>>,
                       DefaultTimeout)
      [] req.endpoint = "capture_single_camera" ->
            Invocation(<<"--json", "--camera", req.camera_id, "--capture">>, 60)

\* The run_camera_command call each handler makes.
CallOf(req) ==
    CASE req.endpoint = "list_cameras" ->
            Invocation(<<"--json", "--list-cameras">>, DefaultTimeout)
      [] req.endpoint = "capture_all_cameras" ->
            Invocation(<<"--json", "--capture-all">>, 120)
      [] req.endpoint = "get_camera_parameters" ->
            Invocation(<<"--json", "--get-params", req.camera_id>>,
                       DefaultTimeout)
      [] req.endpoint = "capture_single_camera" ->
            Invocation(<<"--json", "--camera", req.camera_id, "--capture">>, 60)

\* The response each handler sends, given what subprocess.run did.
ResponseOf(req, o) ==
    CASE req.endpoint = "list_cameras" -> list_cameras(o)
      [] req.endpoint = "capture_all_cameras" -> capture_all_cameras(o)
      [] req.endpoint = "get_camera_parameters" ->
            get_camera_parameters(req.camera_id, o)
      [] req.endpoint = "capture_single_camera" ->
            capture_single_camera(req.camera_id, o)

(***************************************************************************)
(* The inputs of the bridge.                                               *)
(***************************************************************************)

\* The number of requests a run receives.
MaxRequests == 2

CameraIds == {"1", "2"}

\* The requests a client can send.
Requests ==
    { [endpoint |-> "list_cameras", camera_id |-> ""],
      [endpoint |-> "capture_all_cameras", camera_id |-> ""],
      [endpoint |-> "system_status", camera_id |-> ""] }
    \cup { [endpoint |-> e, camera_id |-> c] :
             e \in {"get_camera_parameters", "capture_single_camera"},
             c \in CameraIds }

\* What the subprocess prints on its standard output.
StdoutTexts ==
    { "",
      "[]",
      "{\"total_cameras\": 2}",
      "{\"system_info\": {\"executable\": \"upstream\"}, \"total_images\": 4}" }

\* What subprocess.run can do: expire, raise another exception (the
\* executable cannot be started, its output cannot be decoded as text), or
\* complete with a return code and the text the process printed.
Outcomes ==
    { [kind |-> "TimeoutExpired"],
      [kind |-> "Exception", msg |-> "[Errno 2] No such file or directory"] }
    \cup { [kind |-> "CompletedProcess", returncode |-> 0, stdout |-> t] :
             t \in StdoutTexts }
    \cup { [kind |-> "CompletedProcess", returncode |-> 1, stdout |-> t] :
             t \in {"", "{\"total_cameras\": 2}"} }

BridgeInit ==
    /\ requests = <<>>
    /\ phase = <<>>
    /\ invoked = <<>>
    /\ result = <<>>
    /\ response = <<>>
    /\ running = 0

\* A request arrives and waits for the event loop.
Arrive ==
    /\ program = "bridge"
    /\ UNCHANGED <<program, reader_vars>>
    /\ Len(requests) < MaxRequests
    /\ \E req \in Requests :
          /\ requests' = Append(requests, req)
          /\ phase' = Append(phase, "pending")
          /\ invoked' = Append(invoked, <<>>)
          /\ result' = Append(result, NoResult)
          /\ response' = Append(response, NoResponse)
    /\ UNCHANGED running

\* The event loop runs system_status for a pending request, to its return.
SystemStatus(id) ==
    /\ program = "bridge"
    /\ UNCHANGED <<program, reader_vars>>
    /\ running = 0
    /\ phase[id] = "pending"
    /\ requests[id].endpoint = "system_status"
    /\ \E exe_exists \in BOOLEAN, cfg_exists \in BOOLEAN :
          response' = [response EXCEPT
                          ![id] = system_status(exe_exists, cfg_exists)]
    /\ phase' = [phase EXCEPT ![id] = "done"]
    /\ UNCHANGED <<requests, invoked, result, running>>

\* A camera handler started while another is waiting for its subprocess, as a
\* handler run in a worker thread would be.
BeginCommandConcurrent(id) ==
    /\ program = "bridge"
    /\ UNCHANGED <<program, reader_vars>>
    /\ phase[id] = "pending"
    /\ requests[id].endpoint \in CameraEndpoints
    /\ invoked' = [invoked EXCEPT ![id] = Append(@, CallOf(requests[id]))]
    /\ phase' = [phase EXCEPT ![id] = "running"]
    /\ running' = id
    /\ UNCHANGED <<requests, result, response>>

\* The event loop runs a camera handler for a pending request, up to its
\* call of subprocess.run, which blocks the loop.
BeginCommand(id) ==
    /\ program = "bridge"
    /\ UNCHANGED <<program, reader_vars>>
    /\ running = 0
    /\ phase[id] = "pending"
    /\ requests[id].endpoint \in CameraEndpoints
    /\ invoked' = [invoked EXCEPT ![id] = Append(@, CallOf(requests[id]))]
    /\ phase' = [phase EXCEPT ![id] = "running"]
    /\ running' = id
    /\ UNCHANGED <<requests, result, response>>

\* subprocess.run returns or raises, and the handler runs to its end.
EndCommand ==
    /\ program = "bridge"
    /\ UNCHANGED <<program, reader_vars>>
    /\ running # 0
    /\ \E o \in Outcomes :
          /\ result' = [result EXCEPT ![running] = o]
          /\ response' = [response EXCEPT
                             ![running] = ResponseOf(requests[running], o)]
    /\ phase' = [phase EXCEPT ![running] = "done"]
    /\ running' = 0
    /\ UNCHANGED <<requests, invoked>>

\* The event loop runs the handler of some pending request.
SystemStatusStep == \E id \in DOMAIN requests : SystemStatus(id)

BeginCommandStep == \E id \in DOMAIN requests : BeginCommand(id)

\* The bridge's steps that answer requests.
Serve == SystemStatusStep \/ BeginCommandStep \/ EndCommand

(***************************************************************************)
(* The specifications                                                      *)
(***************************************************************************)

Init ==
    /\ program \in {"reader", "bridge"}
    /\ IF program = "reader"
       THEN ReaderInitFrom(HintDims, BitDepths)
       ELSE ReaderInitFrom({<<4112, 3008>>}, {12})
    /\ BridgeInit

Next ==
    \/ ReadRawFile
    \/ DemosaicBayer
    \/ Arrive
    \/ SystemStatusStep
    \/ BeginCommandStep
    \/ EndCommand

Spec == Init /\ [][Next]_vars

\* The event loop runs every handler it has accepted a request for, and
\* subprocess.run returns when the process exits or its timeout expires.
FairSpec == Spec /\ WF_vars(Serve)

(***************************************************************************)
(* Properties of the reader.                                               *)
(***************************************************************************)

\* read_raw_file has been called (the last call's values are in the state).
Called == outcome # "none"

\* The candidates the documentation lists, in its order: the hinted
\* dimensions at 2 and at 1 bytes/sample, then each reference resolution at
\* 2 bytes/sample, then each at 1 byte/sample.
Candidates(h) ==
    << [w |-> h.width, h |-> h.height, b |-> 2],
       [w |-> h.width, h |-> h.height, b |-> 1],
       [w |-> 4112, h |-> 3008, b |-> 2],
       [w |-> 2056, h |-> 1504, b |-> 2],
       [w |-> 1028, h |-> 752, b |-> 2],
       [w |-> 4112, h |-> 3008, b |-> 1],
       [w |-> 2056, h |-> 1504, b |-> 1],
       [w |-> 1028, h |-> 752, b |-> 1] >>

\* The size in bytes of a candidate.
SizeOf(c) == c.w * c.h * c.b

\* The positions of Candidates(h) whose size is exactly n.
ExactMatches(h, n) ==
    { i \in DOMAIN Candidates(h) : SizeOf(Candidates(h)[i]) = n }

\* The accepted triples whose size is exactly n.
MatchingTriples(h, n) ==
    { Candidates(h)[i] : i \in ExactMatches(h, n) }

\* The sample positions of a frame that the representation distinguishes.
Positions(img) ==
    { i \in 0 .. (Len(img.elems) - 1) : i < img.height * img.width }

\* The sample of a frame at (row-major) position i.
SampleAt(img, i) == img.elems[(i % Len(img.elems)) + 1]

\* Byte i of a buffer.
ByteAt(raw, i) == raw.pat[(i % Len(raw.pat)) + 1]

\* C1: read_raw_file accepts the first candidate, in the documented order,
\* whose size is exactly the byte length: the frame returned has that
\* candidate's height and width (so a buffer of exactly the hinted
\* width*height*sample_size yields the hinted height x width), its samples are
\* all 0 when the bytes are all 0, and when no candidate's size is the byte
\* length the result is None.
C1_FirstExactCandidate ==
    (Called /\ ~io_error) =>
        IF ExactMatches(hint, raw_data.len) = {}
        THEN image = None
        ELSE LET c == Candidates(hint)[MinOf(ExactMatches(hint, raw_data.len))]
             IN  /\ image.kind = "ndarray"
                 /\ image.height = c.h
                 /\ image.width = c.w
                 /\ bytes_per_pixel = c.b
                 /\ (raw_data.pat = <<0, 0>> =>
                        \A i \in Positions(image) : SampleAt(image, i) = 0)

\* C1 witness: a zero buffer of exactly the hinted size at 1 byte/sample, for
\* a non-square hint, has been decoded on the hinted path.
C1_Witness ==
    /\ outcome = "detected"
    /\ bytes_per_pixel = 1
    /\ hint.width # hint.height
    /\ raw_data.len = hint.width * hint.height
    /\ raw_data.pat = <<0, 0>>
    /\ image.kind = "ndarray"

\* C2 (as stated): a buffer of length width*height*2 - 1 never yields a frame.
C2_OneByteShortAlwaysFails ==
    (Called /\ ~io_error /\ raw_data.len = hint.width * hint.height * 2 - 1)
        => image = None

\* C2 (amended): for a hint of at least two pixels, a buffer of length
\* width*height*2 - 1 never yields a frame: read_raw_file returns None.
C2_OneByteShortFails ==
    (/\ Called
     /\ ~io_error
     /\ hint.width * hint.height >= 2
     /\ raw_data.len = hint.width * hint.height * 2 - 1)
        => image = None

\* C2 witness: a buffer one byte short of the hinted 2-byte size whose halved
\* length is a reference resolution's pixel count has been read and refused.
C2_Witness ==
    /\ Called
    /\ ~io_error
    /\ hint.width * hint.height >= 2
    /\ raw_data.len = hint.width * hint.height * 2 - 1
    /\ AutoMatches(raw_data) # {}
    /\ image = None

\* C3 (as stated): whenever a frame is returned, exactly one accepted triple
\* has the byte length as its size.
C3_ExactlyOneTriple ==
    (Called /\ image # None) =>
        Cardinality(MatchingTriples(hint, raw_data.len)) = 1

\* The reference triples have pairwise different sizes.
RefSizesDistinct ==
    \A i, j \in 3 .. 8 :
        i # j => SizeOf(Candidates(hint)[i]) # SizeOf(Candidates(hint)[j])

\* C3 (amended): whenever a frame is returned, the byte length is exactly
\* width*height*bytes_per_sample for the frame's own width and height and the
\* sample size chosen, and that triple is one of the accepted set; among the
\* reference triples no two have the same size (a hinted triple may have the
\* size of a reference triple, and then the hinted one is the one returned).
C3_LengthIsAnAcceptedTriple ==
    (Called /\ image # None) =>
        /\ raw_data.len = image.width * image.height * bytes_per_pixel
        /\ [w |-> image.width, h |-> image.height, b |-> bytes_per_pixel]
               \in MatchingTriples(hint, raw_data.len)
        /\ RefSizesDistinct

\* C3 witness: a frame has been returned for a length that two different
\* accepted triples have as their size.
C3_Witness ==
    /\ Called
    /\ image # None
    /\ Cardinality(MatchingTriples(hint, raw_data.len)) >= 2

\* The sample stored at position i of the buffer, read with b bytes/sample.
StoredSample(raw, b, i) ==
    IF b = 1 THEN ByteAt(raw, i)
    ELSE ByteAt(raw, 2 * i) + 256 * ByteAt(raw, 2 * i + 1)

\* C4: every sample of a returned frame is the stored sample v scaled exactly:
\* v * 2^8 from 1-byte storage; v * 2^4 for a 12-bit v from 2-byte storage
\* with bit_depth 12; v itself from 2-byte storage with another bit_depth;
\* and it lies in 0..65535.  Hinted and auto-detected frames alike.
C4_ExactNormalization ==
    (Called /\ image # None) =>
        \A i \in Positions(image) :
            LET v == StoredSample(raw_data, bytes_per_pixel, i)
                s == SampleAt(image, i)
            IN  /\ s \in 0 .. 65535
                /\ bytes_per_pixel = 1 => (v \in 0 .. 255 /\ s = v * 256)
                /\ (bytes_per_pixel = 2 /\ bit_depth = 12 /\ v <= 4095)
                       => s = v * 16
                /\ (bytes_per_pixel = 2 /\ bit_depth # 12) => s = v

\* C4 witness: the largest 12-bit sample has been read from 2-byte storage
\* with bit_depth 12 on the auto-detection path.
C4_Witness ==
    /\ outcome = "auto-detected"
    /\ bit_depth = 12
    /\ bytes_per_pixel = 2
    /\ raw_data.pat = <<255, 15>>
    /\ SampleAt(image, 0) = 65520

\* C5: demosaic_bayer with a pattern outside the four returns None having
\* done no work on the samples: no 8-bit truncation, no interpolation.
C5_RejectsBeforeAnyWork ==
    (last_op = "demosaic_bayer" /\ pattern \notin DOMAIN pattern_map) =>
        (rgb_image = None /\ bayer_8bit = None)

\* C6: whatever calls came before, read_raw_file returns what a fresh reader
\* with the same constructor arguments returns for the same file, and leaves
\* width, height and bytes_per_pixel as constructed.
C6_NoStateBetweenCalls ==
    Called =>
        /\ image = read_raw_file(
                       NewReader(ctor.width, ctor.height, ctor.bit_depth),
                       raw_data, io_error).ret
        /\ width = ctor.width
        /\ height = ctor.height
        /\ bytes_per_pixel =
               NewReader(ctor.width, ctor.height, ctor.bit_depth).bytes_per_pixel

\* C7: the value returned for an I/O failure differs from the value returned
\* for a byte length that matches no candidate: of two calls in a row, one
\* failing to read and the next reading a length no candidate has, the
\* returned values are different.
C7_FailureKindsDistinct ==
    [][(/\ Called
        /\ io_error
        /\ last_op' = "read_raw_file"
        /\ ~io_error'
        /\ ExactMatches(hint', raw_data'.len) = {})
           => image' # image]_vars

(***************************************************************************)
(* Properties of the bridge.                                               *)
(***************************************************************************)

\* The request id has been answered.
Answered(id) == id \in DOMAIN requests /\ phase[id] = "done"

\* The request id is for an endpoint that invokes the external process.
IsCamera(id) == requests[id].endpoint \in CameraEndpoints

\* The texts of StdoutTexts that are JSON documents.
JsonTexts ==
    { "[]",
      "{\"total_cameras\": 2}",
      "{\"system_info\": {\"executable\": \"upstream\"}, \"total_images\": 4}" }

\* The details of the two "invalid response" errors.
InvalidResponseDetails ==
    { "Invalid response from camera system",
      "Invalid response from capture operation" }

\* The detail that names the operation that failed.
OperationDetail(req) ==
    CASE req.endpoint = "list_cameras" -> "Failed to list cameras"
      [] req.endpoint = "capture_all_cameras" -> "Capture operation failed"
      [] req.endpoint = "get_camera_parameters" ->
            "Camera " \o req.camera_id \o " not found"
      [] req.endpoint = "capture_single_camera" ->
            "Capture failed for camera " \o req.camera_id

\* The results of the three failure causes, for an answered camera request,
\* the status of a non-zero exit being given by NonZeroStatus.
FailureResults(id, NonZeroStatus(_)) ==
    /\ result[id].kind = "TimeoutExpired" =>
          /\ response[id].status = 408
          /\ response[id].detail = "Camera operation timed out"
    /\ (result[id].kind = "CompletedProcess" /\ result[id].returncode # 0) =>
          /\ response[id].status = NonZeroStatus(requests[id])
          /\ response[id].detail = OperationDetail(requests[id])
          /\ response[id].detail \notin InvalidResponseDetails
    /\ (/\ result[id].kind = "CompletedProcess"
        /\ result[id].returncode = 0
        /\ result[id].stdout \notin JsonTexts) =>
          /\ response[id].status = 500
          /\ response[id].detail \in InvalidResponseDetails

\* Every request received is eventually answered.
EveryRequestAnswered ==
    \A id \in 1 .. MaxRequests :
        (id \in DOMAIN requests) ~> Answered(id)

Always500(req) == 500

\* 404 for get_camera_parameters, 500 for the other three.
NotFoundOr500(req) ==
    IF req.endpoint = "get_camera_parameters" THEN 404 ELSE 500

\* C8 (as stated): every request is eventually answered, and for the four
\* camera endpoints a timeout yields 408, a non-zero exit yields 500 with a
\* detail naming the operation, and a zero exit with non-JSON output yields 500
\* with an "invalid response" detail.
C8_NonZeroExitIs500 ==
    /\ [](\A id \in DOMAIN requests :
             (Answered(id) /\ IsCamera(id)) => FailureResults(id, Always500))
    /\ EveryRequestAnswered

\* C8 (amended): every request is eventually answered, and for the four camera
\* endpoints a timeout yields 408 "Camera operation timed out"; a non-zero exit
\* yields a detail naming the operation, with status 500 for list cameras,
\* capture-all and capture single camera and status 404 for get camera
\* parameters; a zero exit with output that is not JSON yields 500 with an
\* "invalid response" detail; the three results differ in status or detail.
C8_FailureResultsDistinct ==
    /\ [](\A id \in DOMAIN requests :
             (Answered(id) /\ IsCamera(id)) => FailureResults(id, NotFoundOr500))
    /\ EveryRequestAnswered

\* C8 witness: a get-parameters request was answered after a timeout and
\* another after a non-zero exit.
C8_Witness ==
    \E i, j \in DOMAIN requests :
        /\ requests[i].endpoint = "get_camera_parameters"
        /\ requests[j].endpoint = "get_camera_parameters"
        /\ Answered(i) /\ result[i].kind = "TimeoutExpired"
        /\ Answered(j) /\ result[j].kind = "CompletedProcess"
        /\ result[j].returncode # 0

\* The argument list of each operation.
OperationArgs(req) ==
    CASE req.endpoint = "list_cameras" -> <<"--json", "--list-cameras">>
      [] req.endpoint = "capture_all_cameras" -> <<"--json", "--capture-all">>
      [] req.endpoint = "get_camera_parameters" ->
            <<"--json", "--get-params", req.camera_id>>
      [] req.endpoint = "capture_single_camera" ->
            <<"--json", "--camera", req.camera_id, "--capture">>

\* C9: a request to a camera endpoint has made exactly one invocation by the
\* time it is answered and never more than one; the invocation is the
\* executable, "--config", the config path and the operation's arguments, in
\* the data directory, with a timeout of 120 s for capture-all and 60 s
\* otherwise; a request to /api/system/status makes none.
C9_ExactlyOneInvocation ==
    \A id \in DOMAIN requests :
        /\ Len(invoked[id]) <= 1
        /\ ~IsCamera(id) => Len(invoked[id]) = 0
        /\ (IsCamera(id) /\ phase[id] = "pending") => Len(invoked[id]) = 0
        /\ (IsCamera(id) /\ phase[id] # "pending") =>
              /\ Len(invoked[id]) = 1
              /\ invoked[id][1].cmd =
                     <<"backend/refactored_capture.exe", "--config",
                       "config/camera_config.json">>
                         \o OperationArgs(requests[id])
              /\ invoked[id][1].cwd = "data"
              /\ invoked[id][1].timeout =
                     IF requests[id].endpoint = "capture_all_cameras"
                     THEN 120 ELSE 60

\* C9 witness: a capture-all request and a status request have both been
\* answered.
C9_Witness ==
    \E i, j \in DOMAIN requests :
        /\ requests[i].endpoint = "capture_all_cameras" /\ Answered(i)
        /\ requests[j].endpoint = "system_status" /\ Answered(j)

\* C10: when the process exits with code zero and prints JSON of any type, the
\* response is 200 with that JSON value as its body for list cameras, get
\* camera parameters and capture single camera; for capture-all it is 200 with
\* a JSON object holding every upstream key with its upstream value.
C10_JsonPassedThrough ==
    \A id \in DOMAIN requests :
        (/\ Answered(id)
         /\ IsCamera(id)
         /\ result[id].kind = "CompletedProcess"
         /\ result[id].returncode = 0
         /\ result[id].stdout \in JsonTexts) =>
            /\ response[id].status = 200
            /\ requests[id].endpoint # "capture_all_cameras" =>
                  response[id].body = json_loads(result[id].stdout)
            /\ requests[id].endpoint = "capture_all_cameras" =>
                  LET up == json_loads(result[id].stdout)
                  IN  /\ response[id].body.kind = up.kind
                      /\ up.kind = "dict" =>
                            \A k \in DOMAIN up.value :
                                /\ k \in DOMAIN response[id].body.value
                                /\ response[id].body.value[k] = up.value[k]

\* The requests whose invocation has been made and has not yet returned.
InFlight == { id \in DOMAIN requests : phase[id] = "running" }

\* C11: with the one event loop and handlers that block it in subprocess.run,
\* at most one invocation is in flight at any time, and while one is in flight
\* no other request is answered: a step taken then starts no handler and
\* leaves every other request's phase and response as they are, the status
\* endpoint's included.
C11_OneInvocationAtATime ==
    /\ [](Cardinality(InFlight) <= 1)
    /\ [][InFlight # {} =>
            \A id \in DOMAIN requests :
                id \notin InFlight =>
                    /\ phase'[id] = phase[id]
                    /\ response'[id] = response[id]
                    /\ invoked'[id] = invoked[id]]_vars

\* C11 witness: an invocation is in flight while a status request and nothing
\* else is waiting to be answered.
C11_Witness ==
    \E i, j \in DOMAIN requests :
        /\ phase[i] = "running"
        /\ requests[j].endpoint = "system_status"
        /\ phase[j] = "pending"
        /\ response[j] = NoResponse


=============================================================================
